---- MODULE Spec2Model ----
(***************************************************************************)
(* State-machine model of the UFC fighter pipeline:                        *)
(*   io::load_csv            (src/src/io.rs)                               *)
(*   preprocess::preprocess  (src/src/preprocess.rs)                       *)
(*   model::train_model      (src/src/model.rs)                            *)
(*                                                                         *)
(* Text is a sequence of one-character strings, so that the conversions    *)
(* the loader performs (integer, float and date parsing) are computed and  *)
(* not assumed.  An f32 is the pair <<n, d>>: d > 0 is the finite value    *)
(* n/d in lowest terms, <<1,0>> is +infinity, <<-1,0>> is -infinity and    *)
(* <<0,0>> is NaN.  Arithmetic on finite values is exact (f32 rounding and *)
(* overflow of finite operands are outside the model; +0 and -0, which     *)
(* compare equal, are one value).  The special values follow IEEE 754.     *)
(***************************************************************************)
EXTENDS Integers, Sequences, FiniteSets, TLC

\* ------------------------------------------------------------------ bounds
\* Longest source (data rows after the header) the loader is run on.
MaxRows == 2
\* Longest record sequence preprocess is run on.
MaxRecords == 2

\* ------------------------------------------------------------------- f32
NaN == <<0, 0>>
PosInf == <<1, 0>>
NegInf == <<-1, 0>>
Zero == <<0, 1>>
One == <<1, 1>>

Abs(n) == IF n < 0 THEN -n ELSE n

RECURSIVE Gcd(_, _)
Gcd(a, b) == IF b = 0 THEN a ELSE Gcd(b, a % b)

\* The finite value n/d (d # 0) in lowest terms with a positive denominator.
Norm(n, d) ==
    LET s == IF d < 0 THEN -1 ELSE 1
        g == Gcd(Abs(n), Abs(d))
    IN  <<(s * n) \div g, (s * d) \div g>>

IsNan(x) == x = NaN
IsInf(x) == x[2] = 0 /\ x[1] # 0
IsFinite(x) == x[2] > 0

\* a < b; false when either side is NaN.
FLt(a, b) ==
    /\ ~IsNan(a)
    /\ ~IsNan(b)
    /\ IF IsInf(a) /\ IsInf(b) THEN a[1] < b[1]
       ELSE a[1] * b[2] < b[1] * a[2]

FGt(a, b) == FLt(b, a)

\* a <= b; false when either side is NaN.
FLe(a, b) == ~IsNan(a) /\ ~IsNan(b) /\ ~FLt(b, a)

FNeg(a) == <<-a[1], a[2]>>

\* a - b
FSub(a, b) ==
    IF IsNan(a) \/ IsNan(b) THEN NaN
    ELSE IF IsInf(a) /\ IsInf(b) THEN (IF a = b THEN NaN ELSE a)
    ELSE IF IsInf(a) THEN a
    ELSE IF IsInf(b) THEN FNeg(b)
    ELSE Norm(a[1] * b[2] - b[1] * a[2], a[2] * b[2])

\* a / b
FDiv(a, b) ==
    IF IsNan(a) \/ IsNan(b) THEN NaN
    ELSE IF IsInf(a) /\ IsInf(b) THEN NaN
    ELSE IF IsInf(a) THEN (IF b[1] < 0 THEN FNeg(a) ELSE a)
    ELSE IF IsInf(b) THEN Zero
    ELSE IF b[1] = 0 THEN (IF a[1] = 0 THEN NaN
                           ELSE IF a[1] > 0 THEN PosInf ELSE NegInf)
    ELSE Norm(a[1] * b[2], a[2] * b[1])

\* f32::min and f32::max: a NaN operand is ignored.
FMin(a, b) == IF IsNan(a) THEN b ELSE IF IsNan(b) THEN a ELSE IF FLt(b, a) THEN b ELSE a
FMax(a, b) == IF IsNan(a) THEN b ELSE IF IsNan(b) THEN a ELSE IF FLt(a, b) THEN b ELSE a

\* An integer as f32.
FromInt(n) == <<n, 1>>

\* The division computing `what`, with `what` recorded when its divisor is zero.
Div(a, b, what) == [v |-> FDiv(a, b), dz |-> IF b = Zero THEN {what} ELSE {}]
NoDiv(x) == [v |-> x, dz |-> {}]

\* ------------------------------------------------------------------ text
Digit == {"0", "1", "2", "3", "4", "5", "6", "7", "8", "9"}

DigitVal(c) ==
    CASE c = "0" -> 0 [] c = "1" -> 1 [] c = "2" -> 2 [] c = "3" -> 3
      [] c = "4" -> 4 [] c = "5" -> 5 [] c = "6" -> 6 [] c = "7" -> 7
      [] c = "8" -> 8 [] c = "9" -> 9

AllDigits(s) == Len(s) > 0 /\ \A i \in 1..Len(s) : s[i] \in Digit

RECURSIVE DecVal(_)
DecVal(s) ==
    IF s = <<>> THEN 0
    ELSE DecVal(SubSeq(s, 1, Len(s) - 1)) * 10 + DigitVal(s[Len(s)])

RECURSIVE Pow10(_)
Pow10(k) == IF k = 0 THEN 1 ELSE 10 * Pow10(k - 1)

\* A byte sequence that is not valid UTF-8 shows as this character.
BadByte == "<FF>"
Whitespace == {" ", "\t"}

\* str::trim().is_empty()
TrimIsEmpty(f) == \A i \in 1..Len(f) : f[i] \in Whitespace

\* Position of the first occurrence of c in s, or 0.
IndexOf(s, c) ==
    IF \E i \in 1..Len(s) : s[i] = c
    THEN CHOOSE i \in 1..Len(s) : s[i] = c /\ \A k \in 1..(i - 1) : s[k] # c
    ELSE 0

Parsed(x) == [ok |-> TRUE, v |-> x]
\* A failed conversion; d only fills the value slot.
Failed(d) == [ok |-> FALSE, v |-> d]


\* --------------------------------------------------------- field conversion
\* usize::from_str: an optional "+", then one or more decimal digits.
ParseUsize(s) ==
    LET t == IF Len(s) > 0 /\ s[1] = "+" THEN Tail(s) ELSE s
    IN  IF AllDigits(t) THEN Parsed(DecVal(t)) ELSE Failed(0)

\* f32::from_str on decimal literals without exponent: an optional sign, then
\* "inf", "NaN", or digits with an optional "." (at least one digit in all).
ParseF32(s) ==
    LET signed == Len(s) > 0 /\ s[1] \in {"+", "-"}
        neg == Len(s) > 0 /\ s[1] = "-"
        body == IF signed THEN Tail(s) ELSE s
        dot == IndexOf(body, ".")
        ip == IF dot = 0 THEN body ELSE SubSeq(body, 1, dot - 1)
        fp == IF dot = 0 THEN <<>> ELSE SubSeq(body, dot + 1, Len(body))
        digs == ip \o fp
    IN  IF body = <<"i", "n", "f">> THEN Parsed(IF neg THEN NegInf ELSE PosInf)
        ELSE IF body = <<"N", "a", "N">> THEN Parsed(NaN)
        ELSE IF AllDigits(digs)
             THEN Parsed(Norm((IF neg THEN -1 ELSE 1) * DecVal(digs), Pow10(Len(fp))))
             ELSE Failed(NaN)

\* Option<T>: <<>> is None and <<x>> is Some(x).  The csv deserializer maps an
\* empty field to None and converts any other field.
ParseOptF32(s) ==
    IF s = <<>> THEN Parsed(<<>>)
    ELSE LET p == ParseF32(s) IN IF p.ok THEN Parsed(<<p.v>>) ELSE Failed(<<>>)

ParseOptString(s) == IF s = <<>> THEN Parsed(<<>>) ELSE Parsed(<<s>>)

IsLeap(y) == (y % 4 = 0 /\ y % 100 # 0) \/ y % 400 = 0

DaysIn(y, m) ==
    IF m = 2 THEN (IF IsLeap(y) THEN 29 ELSE 28)
    ELSE IF m \in {4, 6, 9, 11} THEN 30 ELSE 31

NoDate == [y |-> 0, m |-> 0, d |-> 0]

\* NaiveDate::parse_from_str(s, "%Y-%m-%d"): year of 1 to 4 digits, month and
\* day of 1 or 2 digits, separated by "-", naming a day of the calendar.
ParseDate(s) ==
    LET d1 == IndexOf(s, "-")
        rest == IF d1 = 0 THEN <<>> ELSE SubSeq(s, d1 + 1, Len(s))
        d2 == IndexOf(rest, "-")
        ys == IF d1 = 0 THEN <<>> ELSE SubSeq(s, 1, d1 - 1)
        ms == IF d2 = 0 THEN <<>> ELSE SubSeq(rest, 1, d2 - 1)
        ds == IF d2 = 0 THEN <<>> ELSE SubSeq(rest, d2 + 1, Len(rest))
        shaped == /\ AllDigits(ys) /\ Len(ys) <= 4
                  /\ AllDigits(ms) /\ Len(ms) <= 2
                  /\ AllDigits(ds) /\ Len(ds) <= 2
        y == DecVal(ys)
        m == DecVal(ms)
        d == DecVal(ds)
    IN  IF shaped /\ m \in 1..12 /\ d \in 1..DaysIn(y, m)
        THEN Parsed([y |-> y, m |-> m, d |-> d])
        ELSE Failed(NoDate)

\* ------------------------------------------------------------- FighterRecord
\* The 18 columns of the schema, in file order.
Headers ==
    << "name", "nickname", "wins", "losses", "draws",
       "height_cm", "weight_in_kg", "reach_in_cm", "stance", "date_of_birth",
       "significant_strikes_landed_per_minute", "significant_striking_accuracy",
       "significant_strikes_absorbed_per_minute", "significant_strike_defence",
       "average_takedowns_landed_per_15_minutes", "takedown_accuracy",
       "takedown_defense", "average_submissions_attempted_per_15_minutes" >>

\* The field of raw stored under the header called name.
Column(raw, headers, name) == raw[IndexOf(headers, name)]

\* StringRecord::deserialize::<FighterRecord>(Some(&headers)): every struct field
\* is converted from the column of its name; one failure fails the record.
Deserialize(raw, headers) ==
    LET F(n) == Column(raw, headers, n)
        nick == ParseOptString(F("nickname"))
        wins == ParseUsize(F("wins"))
        losses == ParseUsize(F("losses"))
        draws == ParseUsize(F("draws"))
        height == ParseOptF32(F("height_cm"))
        weight == ParseOptF32(F("weight_in_kg"))
        reach == ParseOptF32(F("reach_in_cm"))
        dob == ParseDate(F("date_of_birth"))
        slpm == ParseOptF32(F("significant_strikes_landed_per_minute"))
        sacc == ParseOptF32(F("significant_striking_accuracy"))
        sabs == ParseOptF32(F("significant_strikes_absorbed_per_minute"))
        sdef == ParseOptF32(F("significant_strike_defence"))
        tk15 == ParseOptF32(F("average_takedowns_landed_per_15_minutes"))
        tacc == ParseOptF32(F("takedown_accuracy"))
        tdef == ParseOptF32(F("takedown_defense"))
        sb15 == ParseOptF32(F("average_submissions_attempted_per_15_minutes"))
        ok == /\ wins.ok /\ losses.ok /\ draws.ok
              /\ height.ok /\ weight.ok /\ reach.ok /\ dob.ok
              /\ slpm.ok /\ sacc.ok /\ sabs.ok /\ sdef.ok
              /\ tk15.ok /\ tacc.ok /\ tdef.ok /\ sb15.ok
    IN  [ ok |-> ok,
          rec |-> [ name |-> F("name"),
                    nickname |-> nick.v,
                    wins |-> wins.v,
                    losses |-> losses.v,
                    draws |-> draws.v,
                    height_cm |-> height.v,
                    weight_in_kg |-> weight.v,
                    reach_in_cm |-> reach.v,
                    stance |-> F("stance"),
                    date_of_birth |-> dob.v,
                    significant_strikes_landed_per_minute |-> slpm.v,
                    significant_striking_accuracy |-> sacc.v,
                    significant_strikes_absorbed_per_minute |-> sabs.v,
                    significant_strike_defence |-> sdef.v,
                    average_takedowns_landed_per_15_minutes |-> tk15.v,
                    takedown_accuracy |-> tacc.v,
                    takedown_defense |-> tdef.v,
                    average_submissions_attempted_per_15_minutes |-> sb15.v ] ]


\* ------------------------------------------------------------ sample text
\* Field texts the sample rows are written with.
tA == <<"A">>
tB == <<"B">>
tC == <<"C">>
t0 == <<"0">>
t1 == <<"1">>
t2 == <<"2">>
t3 == <<"3">>
t8 == <<"8">>
t10 == <<"1", "0">>
tMinus1 == <<"-", "1">>
t180 == <<"1", "8", "0", ".", "0">>
t170 == <<"1", "7", "0", ".", "0">>
t70 == <<"7", "0", ".", "0">>
t90 == <<"9", "0", ".", "0">>
t190 == <<"1", "9", "0", ".", "0">>
t567 == <<"5", "6", ".", "7">>
t5 == <<"5", ".", "0">>
t05 == <<"0", ".", "5">>
t3p == <<"3", ".", "0">>
t06 == <<"0", ".", "6">>
t30 == <<"3", "0", ".", "0">>
t04 == <<"0", ".", "4">>
t07 == <<"0", ".", "7">>
t15 == <<"1", "5", ".", "0">>
t4 == <<"4", ".", "0">>
t2p == <<"2", ".", "0">>
t20 == <<"2", "0", ".", "0">>
t03 == <<"0", ".", "3">>
t10p == <<"1", "0", ".", "0">>
t0p == <<"0", ".", "0">>
tNeg3 == <<"-", "3", ".", "0">>
tInf == <<"i", "n", "f">>
tNegInf == <<"-", "i", "n", "f">>
tNaN == <<"N", "a", "N">>
tAbc == <<"a", "b", "c">>
tSpace == <<" ">>
tOrthodox == <<"O", "r", "t", "h", "o", "d", "o", "x">>
tSouthpaw == <<"S", "o", "u", "t", "h", "p", "a", "w">>
tSwitch == <<"S", "w", "i", "t", "c", "h">>
tLower == <<"o", "r", "t", "h", "o", "d", "o", "x">>
tDob1990 == <<"1", "9", "9", "0", "-", "0", "1", "-", "0", "1">>
tDob1992 == <<"1", "9", "9", "2", "-", "0", "6", "-", "0", "1">>
tDob2000 == <<"2", "0", "0", "0", "-", "1", "2", "-", "3", "1">>
tDobBad == <<"1", "9", "9", "0", "-", "1", "3", "-", "0", "1">>
tEmpty == <<>>
tBad == <<"A", BadByte>>

\* The row of src/src/main.rs test_load_csv, and the two rows of
\* test_preprocess_filters_and_features (the second with its weight filled in).
RowA ==
    << tA, tEmpty, t10, t2, t1, t180, t70, t190, tOrthodox, tDob1990,
       t5, t05, t3p, t06, t30, t04, t07, t15 >>
RowA90 == [RowA EXCEPT ![7] = t90]
RowB ==
    << tB, tEmpty, t8, t3, t1, t180, t70, t190, tSouthpaw, tDob1992,
       t4, t04, t2p, t05, t20, t03, t06, t10p >>

\* row with the field in column c replaced by f.
With(row, c, f) == [row EXCEPT ![c] = f]

\* Rows the loader is run on: well-formed ones, blank ones, rows of the wrong
\* arity, rows with one unconvertible field, and a row that is not UTF-8.
LoadRows ==
    { RowA, RowB,
      With(RowB, 7, tEmpty),                 \* optional number left empty
      With(RowA, 8, tInf),                   \* "inf" converts to f32
      With(RowA, 9, tLower),                 \* any text is a stance here
      <<>>,                                  \* an empty line
      <<tSpace, tEmpty>>,                    \* blank fields, wrong arity
      [c \in 1..18 |-> IF c = 3 THEN tSpace ELSE tEmpty],  \* blank, right arity
      SubSeq(RowA, 1, 17),                   \* one field short
      Append(RowA, t1),                      \* one field too many
      With(RowA, 10, tDobBad),               \* month 13
      With(RowA, 10, tAbc),                  \* not a date
      With(RowA, 3, tMinus1),                \* negative counter
      With(RowB, 5, tEmpty),                 \* empty counter
      With(RowA, 7, tAbc),                   \* not a number
      With(RowB, 6, tSpace),                 \* whitespace is not a number
      With(RowA, 1, tBad) }                  \* undecodable field


\* ------------------------------------------------------------------ state
VARIABLES
    \* load_csv
    source,        \* the file: its header, its data rows, where reading it faults
    lpc,           \* position in load_csv: "call", "rows", "done"
    ln,            \* data rows taken from the reader so far
    expected_len,  \* headers.len()
    out,           \* the Vec<FighterRecord> being built
    diags,         \* what was written to stderr, in order
    result,        \* "none" while running, then "Ok" or "Err"
    outRow,        \* history: for each record of out, the index of its row
    \* preprocess
    records,       \* the input slice
    today,         \* Local::now().date_naive()
    idx,           \* input records the first loop has taken
    cleaned,       \* the Vec<CleanRecord> being built, then normalized in place
    ppc,           \* position in preprocess: "call", "pass1", "map", "done"
    feat,          \* which normalize call is running (1..11)
    pos,           \* records of cleaned the running normalize call has rewritten
    min,           \* normalize: the fold's minimum
    max,           \* normalize: the fold's maximum
    divZero,       \* history: the computations that divided by zero
    origin,        \* history: for each record of cleaned, the index of its input
    derived,       \* history: cleaned as pass 1 built it, never normalized
    \* train_model
    train_records, \* the input slice (its parameter `records`)
    tpc,           \* position in train_model: "call", "rows", "done"
    built,         \* rows of x and entries of y the loop has filled
    X,             \* x, the n x 19 feature matrix, as a sequence of rows
    Y,             \* y, the target vector
    coefs,         \* model.params(), once the fit returned Ok
    results,       \* the (name, coefficient) pairs returned
    trained        \* "none" while running, then "Ok", "Err" or "panic"

loadVars == <<source, lpc, ln, expected_len, out, diags, result, outRow>>
preVars == <<records, today, idx, cleaned, ppc, feat, pos, min, max, divZero,
             origin, derived>>
trainVars == <<train_records, tpc, built, X, Y, coefs, results, trained>>
vars == <<loadVars, preVars, trainVars>>

\* ---------------------------------------------------------------- load_csv
\* A file: fault = -1: it reads to its end; fault = 0: it cannot be opened, or
\* its header cannot be read; fault = k > 0: reading data row k is an I/O error.
Source(rows, fault) == [headers |-> Headers, rows |-> rows, fault |-> fault]

\* The reader's result for a data row is Err when reading faults or when the
\* row is not valid UTF-8 (csv::StringRecord).
NotUtf8(raw) == \E c \in 1..Len(raw) : \E i \in 1..Len(raw[c]) : raw[c][i] = BadByte
ReadErr(src, k) == src.fault = k \/ NotUtf8(src.rows[k])

\* AllBlank with `any` for `all`.
MutAllBlank(raw) == \E c \in 1..Len(raw) : TrimIsEmpty(raw[c])

\* raw.iter().all(|f| f.trim().is_empty())
AllBlank(raw) == \A c \in 1..Len(raw) : TrimIsEmpty(raw[c])

ArityDiag(line, expected, found) ==
    [line |-> line, kind |-> "fields", expected |-> expected, found |-> found]
MalformedDiag(line) ==
    [line |-> line, kind |-> "malformed", expected |-> 0, found |-> 0]

\* The file's line of data row k: the header is line 1.
LineOf(k) == k + 1

\* Neither function has been called.
Init ==
    /\ source = [headers |-> <<>>, rows |-> <<>>, fault |-> -1]
    /\ lpc = "call"
    /\ ln = 0
    /\ expected_len = 0
    /\ out = <<>>
    /\ diags = <<>>
    /\ result = "none"
    /\ outRow = <<>>
    /\ records = <<>>
    /\ today = NoDate
    /\ idx = 0
    /\ cleaned = <<>>
    /\ ppc = "call"
    /\ feat = 0
    /\ pos = 0
    /\ min = NaN
    /\ max = NaN
    /\ divZero = {}
    /\ origin = <<>>
    /\ derived = <<>>
    /\ train_records = <<>>
    /\ tpc = "call"
    /\ built = 0
    /\ X = <<>>
    /\ Y = <<>>
    /\ coefs = <<>>
    /\ results = <<>>
    /\ trained = "none"

\* load_csv is called on a file: File::open(path)? and rdr.headers()?
LoadOpen ==
    /\ lpc = "call"
    /\ \E n \in 0..MaxRows : \E rows \in [1..n -> LoadRows] : \E fault \in -1..n :
          /\ source' = Source(rows, fault)
          /\ IF fault = 0
             THEN /\ lpc' = "done"
                  /\ result' = "Err"
                  /\ UNCHANGED expected_len
             ELSE /\ lpc' = "rows"
                  /\ expected_len' = Len(Headers)
                  /\ UNCHANGED result
    /\ UNCHANGED <<ln, out, diags, outRow>>
    /\ UNCHANGED preVars
    /\ UNCHANGED trainVars

\* RowOutcome with the arity test ahead of the blank test.
MutRowOutcome(src, k, expected) ==
    LET raw == src.rows[k]
    IN  IF ReadErr(src, k) THEN "err"
        ELSE IF raw = <<>> THEN "empty"
        ELSE IF Len(raw) # expected THEN "fields"
        ELSE IF AllBlank(raw) THEN "blank"
        ELSE IF Deserialize(raw, src.headers).ok THEN "push"
        ELSE "malformed"

\* What one turn of the loop over rdr.records() does with data row k:
\* "err" (result? returns), "empty" (the reader yields nothing for an empty
\* line), "blank", "fields", "malformed" or "push".
RowOutcome(src, k, expected) ==
    LET raw == src.rows[k]
    IN  IF ReadErr(src, k) THEN "err"
        ELSE IF raw = <<>> THEN "empty"
        ELSE IF AllBlank(raw) THEN "blank"
        ELSE IF Len(raw) # expected THEN "fields"
        ELSE IF Deserialize(raw, src.headers).ok THEN "push"
        ELSE "malformed"

\* One turn of `for result in rdr.records()`.
LoadRow ==
    /\ lpc = "rows"
    /\ ln < Len(source.rows)
    /\ LET k == ln + 1
           raw == source.rows[k]
           o == RowOutcome(source, k, expected_len)
       IN  /\ ln' = k
           /\ \/ /\ o = "err"
                 /\ lpc' = "done"
                 /\ result' = "Err"
                 /\ UNCHANGED <<out, diags, outRow>>
              \/ /\ o \in {"empty", "blank"}
                 /\ UNCHANGED <<lpc, result, out, diags, outRow>>
              \/ /\ o = "fields"
                 /\ diags' = Append(diags, ArityDiag(LineOf(k), expected_len, Len(raw)))
                 /\ UNCHANGED <<lpc, result, out, outRow>>
              \/ /\ o = "push"
                 /\ out' = Append(out, Deserialize(raw, source.headers).rec)
                 /\ outRow' = Append(outRow, k)
                 /\ UNCHANGED <<lpc, result, diags>>
              \/ /\ o = "malformed"
                 /\ diags' = Append(diags, MalformedDiag(LineOf(k)))
                 /\ UNCHANGED <<lpc, result, out, outRow>>
    /\ UNCHANGED <<source, expected_len>>
    /\ UNCHANGED preVars
    /\ UNCHANGED trainVars

\* The reader is exhausted: Ok(out).
LoadFinish ==
    /\ lpc = "rows"
    /\ ln = Len(source.rows)
    /\ lpc' = "done"
    /\ result' = "Ok"
    /\ UNCHANGED <<source, ln, expected_len, out, diags, outRow>>
    /\ UNCHANGED preVars
    /\ UNCHANGED trainVars

NextLoad == LoadOpen \/ LoadRow \/ LoadFinish

SpecLoad == Init /\ [][NextLoad]_vars


\* --------------------------------------------------------------- preprocess
\* Option<f32>::unwrap_or_default()
UnwrapOrDefault(o) == IF o = <<>> THEN Zero ELSE o[1]

\* <Stance as FromStr>::from_str
StanceFromStr(s) ==
    IF s = <<"O", "r", "t", "h", "o", "d", "o", "x">> THEN Parsed("Orthodox")
    ELSE IF s = <<"S", "o", "u", "t", "h", "p", "a", "w">> THEN Parsed("Southpaw")
    ELSE IF s = <<"S", "w", "i", "t", "c", "h">> THEN Parsed("Switch")
    ELSE Failed("Unknown stance")

\* OneHot with the Southpaw and Switch arms exchanged.
MutOneHot(stance) ==
    CASE stance = "Orthodox" -> <<One, Zero, Zero>>
      [] stance = "Southpaw" -> <<Zero, Zero, One>>
      [] stance = "Switch" -> <<Zero, One, Zero>>

\* (is_orthodox, is_southpaw, is_switch) of a stance
OneHot(stance) ==
    CASE stance = "Orthodox" -> <<One, Zero, Zero>>
      [] stance = "Southpaw" -> <<Zero, One, Zero>>
      [] stance = "Switch" -> <<Zero, Zero, One>>

\* The numeric inputs after defaulting, in the order of the NaN check.
Defaulted(r) ==
    << UnwrapOrDefault(r.weight_in_kg),
       UnwrapOrDefault(r.height_cm),
       UnwrapOrDefault(r.reach_in_cm),
       UnwrapOrDefault(r.significant_strikes_landed_per_minute),
       UnwrapOrDefault(r.significant_strikes_absorbed_per_minute),
       UnwrapOrDefault(r.average_takedowns_landed_per_15_minutes),
       UnwrapOrDefault(r.average_submissions_attempted_per_15_minutes),
       UnwrapOrDefault(r.takedown_accuracy),
       UnwrapOrDefault(r.takedown_defense) >>

\* SizeRejected testing the weight alone.
MutSizeRejected(r) == FLe(UnwrapOrDefault(r.weight_in_kg), Zero)

\* if weight <= 0.0 || height <= 0.0 { continue; }
SizeRejected(r) ==
    \/ FLe(UnwrapOrDefault(r.weight_in_kg), Zero)
    \/ FLe(UnwrapOrDefault(r.height_cm), Zero)

\* if [...].iter().any(|v| v.is_nan()) { continue; }
NanRejected(r) == \E i \in 1..Len(Defaulted(r)) : IsNan(Defaulted(r)[i])

\* The three `continue`s of the first loop.
Dropped(r) == SizeRejected(r) \/ NanRejected(r) \/ ~StanceFromStr(r.stance).ok

\* WinRate without its guard on the total.
MutWinRate(r) ==
    Div(FromInt(r.wins), FromInt(r.wins + r.losses + r.draws), "win_rate")

\* let win_rate = if total > 0.0 { r.wins as f32 / total } else { 0.0 };
WinRate(r) ==
    LET total == FromInt(r.wins + r.losses + r.draws)
    IN  IF FGt(total, Zero) THEN Div(FromInt(r.wins), total, "win_rate") ELSE NoDiv(Zero)

\* Age taking the year off on the birthday too.
MutAge(now, dob) ==
    LET age == now.y - dob.y
        before == now.m < dob.m \/ (now.m = dob.m /\ now.d <= dob.d)
    IN  IF before THEN age - 1 ELSE age

\* today.year() - dob.year(), less one before the birthday of the year.
Age(now, dob) ==
    LET age == now.y - dob.y
        before == now.m < dob.m \/ (now.m = dob.m /\ now.d < dob.d)
    IN  IF before THEN age - 1 ELSE age

\* SubmissionPerTakedown guarding with != 0.0 for > 0.0.
MutSubmissionPerTakedown(submission_lpm, takedown_lpm) ==
    IF takedown_lpm # Zero /\ ~IsNan(takedown_lpm)
    THEN Div(submission_lpm, takedown_lpm, "submission_per_takedown")
    ELSE NoDiv(Zero)

\* if takedown_lpm > 0.0 { submission_lpm / takedown_lpm } else { 0.0 }
SubmissionPerTakedown(submission_lpm, takedown_lpm) ==
    IF FGt(takedown_lpm, Zero) THEN Div(submission_lpm, takedown_lpm, "submission_per_takedown") ELSE NoDiv(Zero)

Kg(tenths) == Norm(tenths, 10)

\* WeightClassOf with <= for < at the first breakpoint.
MutWeightClassOf(weight) ==
    IF FLe(weight, Kg(567)) THEN "Flyweight"
    ELSE IF FLt(weight, Kg(612)) THEN "Bantamweight"
    ELSE IF FLt(weight, Kg(658)) THEN "Featherweight"
    ELSE IF FLt(weight, Kg(703)) THEN "Lightweight"
    ELSE IF FLt(weight, Kg(771)) THEN "Welterweight"
    ELSE IF FLt(weight, Kg(839)) THEN "Middleweight"
    ELSE IF FLt(weight, Kg(930)) THEN "LightHeavyweight"
    ELSE "Heavyweight"

\* The if/else chain over the raw weight.
WeightClassOf(weight) ==
    IF FLt(weight, Kg(567)) THEN "Flyweight"
    ELSE IF FLt(weight, Kg(612)) THEN "Bantamweight"
    ELSE IF FLt(weight, Kg(658)) THEN "Featherweight"
    ELSE IF FLt(weight, Kg(703)) THEN "Lightweight"
    ELSE IF FLt(weight, Kg(771)) THEN "Welterweight"
    ELSE IF FLt(weight, Kg(839)) THEN "Middleweight"
    ELSE IF FLt(weight, Kg(930)) THEN "LightHeavyweight"
    ELSE "Heavyweight"

Fifteen == FromInt(15)

\* The CleanRecord the first loop builds from a record it keeps, and whether
\* building it divided by zero.
Engineer(r, now) ==
    LET weight == UnwrapOrDefault(r.weight_in_kg)
        height == UnwrapOrDefault(r.height_cm)
        reach == UnwrapOrDefault(r.reach_in_cm)
        s_lpm == UnwrapOrDefault(r.significant_strikes_landed_per_minute)
        s_abs == UnwrapOrDefault(r.significant_strikes_absorbed_per_minute)
        tkl15 == UnwrapOrDefault(r.average_takedowns_landed_per_15_minutes)
        sub15 == UnwrapOrDefault(r.average_submissions_attempted_per_15_minutes)
        td_acc == UnwrapOrDefault(r.takedown_accuracy)
        td_def == UnwrapOrDefault(r.takedown_defense)
        stance == StanceFromStr(r.stance).v
        hot == OneHot(stance)
        win_rate == WinRate(r)
        whr == Div(weight, height, "weight_height_ratio")
        rhr == Div(reach, height, "reach_height_ratio")
        takedown_lpm == Div(tkl15, Fifteen, "takedown_lpm")
        submission_lpm == Div(sub15, Fifteen, "submission_lpm")
        spt == SubmissionPerTakedown(submission_lpm.v, takedown_lpm.v)
    IN  [ rec |-> [ stance |-> stance,
                    is_orthodox |-> hot[1],
                    is_southpaw |-> hot[2],
                    is_switch |-> hot[3],
                    weight_height_ratio |-> whr.v,
                    reach_height_ratio |-> rhr.v,
                    submission_per_takedown |-> spt.v,
                    weight_class |-> WeightClassOf(weight),
                    age |-> FromInt(Age(now, r.date_of_birth)),
                    significant_strikes_lpm |-> s_lpm,
                    strike_diff |-> FSub(s_lpm, s_abs),
                    takedown_lpm |-> takedown_lpm.v,
                    submission_lpm |-> submission_lpm.v,
                    takedown_accuracy |-> td_acc,
                    takedown_defense |-> td_def,
                    win_rate |-> win_rate.v ],
          dz |-> win_rate.dz \cup whr.dz \cup rhr.dz \cup takedown_lpm.dz
                 \cup submission_lpm.dz \cup spt.dz ]

\* The features the normalize calls rewrite, in call order.
Features ==
    << "weight_height_ratio", "reach_height_ratio", "submission_per_takedown",
       "age", "significant_strikes_lpm", "strike_diff", "takedown_lpm",
       "submission_lpm", "takedown_accuracy", "takedown_defense", "win_rate" >>

\* records.iter().fold((INFINITY, NEG_INFINITY), |(mi, ma), r| ...)
RECURSIVE FoldMinMax(_, _, _)
FoldMinMax(recs, f, acc) ==
    IF recs = <<>> THEN acc
    ELSE FoldMinMax(Tail(recs), f, <<FMin(acc[1], Head(recs)[f]), FMax(acc[2], Head(recs)[f])>>)

\* Rescale without its guard on the range.
MutRescale(v, mi, ma) == Div(FSub(v, mi), FSub(ma, mi), "normalize")

\* let norm = if range > 0.0 { (v - min) / range } else { 0.0 };
Rescale(v, mi, ma) ==
    LET range == FSub(ma, mi)
    IN  IF FGt(range, Zero) THEN Div(FSub(v, mi), range, "normalize") ELSE NoDiv(Zero)


\* Rows whose records preprocess is run on: every one deserializes.
PreRows ==
    { RowA90, RowB,
      With(RowB, 7, tEmpty),                         \* weight missing
      With(RowB, 7, tMinus1),                        \* weight negative
      With(RowB, 7, tNaN),                           \* weight NaN
      With(RowB, 6, t0p),                            \* height zero
      With(RowA, 9, tLower),                         \* stance in lower case
      With(RowB, 13, tNaN),                          \* NaN among the nine
      With(RowA, 17, tNaN),                          \* NaN in the last of the nine
      With(RowB, 12, tNaN),                          \* NaN outside the nine
      With(RowA, 8, tInf),                           \* infinite reach
      With(With(RowA, 6, tInf), 7, tInf),            \* infinite weight and height
      With(RowA, 15, tNeg3),                         \* negative takedown average
      With(RowB, 11, tNegInf),                       \* strikes landed -inf
      \* no fights, no takedowns, weight on a breakpoint
      << tC, tEmpty, t0, t0, t0, t170, t567, tEmpty, tSwitch, tDob2000,
         tEmpty, tEmpty, tEmpty, tEmpty, t0p, tEmpty, tEmpty, t15 >> }

FighterRecords == { Deserialize(row, Headers).rec : row \in PreRows }

\* Dates the run may happen on.
Todays == { [y |-> 2025, m |-> 6, d |-> 1], [y |-> 2025, m |-> 5, d |-> 31] }

\* preprocess is called on a slice of records, on some day:
\* let today = Local::now().date_naive(); let mut cleaned = Vec::new();
Begin ==
    /\ ppc = "call"
    /\ \E n \in 0..MaxRecords : records' \in [1..n -> FighterRecords]
    /\ today' \in Todays
    /\ cleaned' = <<>>
    /\ ppc' = "pass1"
    /\ UNCHANGED <<idx, feat, pos, min, max, divZero, origin, derived>>
    /\ UNCHANGED loadVars
    /\ UNCHANGED trainVars

\* One turn of `for r in records`.
Pass1 ==
    /\ ppc = "pass1"
    /\ idx < Len(records)
    /\ LET r == records[idx + 1]
       IN  \/ /\ Dropped(r)
              /\ UNCHANGED <<cleaned, origin, derived, divZero>>
           \/ /\ ~Dropped(r)
              /\ cleaned' = Append(cleaned, Engineer(r, today).rec)
              /\ derived' = Append(derived, Engineer(r, today).rec)
              /\ origin' = Append(origin, idx + 1)
              /\ divZero' = divZero \cup Engineer(r, today).dz
    /\ idx' = idx + 1
    /\ UNCHANGED <<records, today, ppc, feat, pos, min, max>>
    /\ UNCHANGED loadVars
    /\ UNCHANGED trainVars

\* A normalize call starts: the fold over all of cleaned.  The first call
\* follows the end of the first loop, each later call the return of the one
\* before it.
NormalizeFold ==
    /\ \/ ppc = "pass1" /\ idx = Len(records)
       \/ ppc = "map" /\ pos = Len(cleaned) /\ feat < Len(Features)
    /\ LET f == Features[feat + 1]
           mm == FoldMinMax(cleaned, f, <<PosInf, NegInf>>)
       IN  /\ min' = mm[1]
           /\ max' = mm[2]
    /\ feat' = feat + 1
    /\ pos' = 0
    /\ ppc' = "map"
    /\ UNCHANGED <<records, today, idx, cleaned, divZero, origin, derived>>
    /\ UNCHANGED loadVars
    /\ UNCHANGED trainVars

\* NormalizeMap taking the minimum and maximum anew, at every turn, from the
\* records as they then are.
MutNormalizeMap ==
    /\ ppc = "map"
    /\ pos < Len(cleaned)
    /\ LET f == Features[feat]
           mm == FoldMinMax(cleaned, f, <<PosInf, NegInf>>)
           norm == Rescale(cleaned[pos + 1][f], mm[1], mm[2])
       IN  /\ cleaned' = [cleaned EXCEPT ![pos + 1][f] = norm.v]
           /\ divZero' = divZero \cup norm.dz
           /\ min' = mm[1]
           /\ max' = mm[2]
    /\ pos' = pos + 1
    /\ UNCHANGED <<records, today, idx, ppc, feat, origin, derived>>
    /\ UNCHANGED loadVars
    /\ UNCHANGED trainVars

\* One turn of `for rec in records.iter_mut()`.
NormalizeMap ==
    /\ ppc = "map"
    /\ pos < Len(cleaned)
    /\ LET f == Features[feat]
           v == cleaned[pos + 1][f]
           norm == Rescale(v, min, max)
       IN  /\ cleaned' = [cleaned EXCEPT ![pos + 1][f] = norm.v]
           /\ divZero' = divZero \cup norm.dz
    /\ pos' = pos + 1
    /\ UNCHANGED <<records, today, idx, ppc, feat, min, max, origin, derived>>
    /\ UNCHANGED loadVars
    /\ UNCHANGED trainVars

\* The last normalize call has returned: preprocess returns cleaned.
Return ==
    /\ ppc = "map"
    /\ pos = Len(cleaned)
    /\ feat = Len(Features)
    /\ ppc' = "done"
    /\ UNCHANGED <<records, today, idx, cleaned, feat, pos, min, max, divZero,
                   origin, derived>>
    /\ UNCHANGED loadVars
    /\ UNCHANGED trainVars

NextPre == Begin \/ Pass1 \/ NormalizeFold \/ NormalizeMap \/ Return

SpecPre == Init /\ [][NextPre]_vars


\* ------------------------------------------------- preprocess, by weight
\* Longest record sequence of the runs that vary the weight.
MaxWeighed == 2

\* The decimal digit of d, and the decimal text of a natural number.
DigitChar(d) == CHOOSE c \in Digit : DigitVal(c) = d

RECURSIVE Decimal(_)
Decimal(n) == IF n < 10 THEN <<DigitChar(n)>> ELSE Decimal(n \div 10) \o <<DigitChar(n % 10)>>

\* The field text of a weight of h hundredths of a kilogram: "56.70" for 5670.
WeightText(h) ==
    Decimal(h \div 100) \o <<".", DigitChar((h \div 10) % 10), DigitChar(h % 10)>>

\* Weights the rows are written with, in hundredths of a kilogram: nothing, the
\* lightest, and each breakpoint of the if/else chain with the weight just
\* under it.
Hundredths ==
    { 0, 1, 5669, 5670, 6119, 6120, 6579, 6580, 7029, 7030,
      7709, 7710, 8389, 8390, 9299, 9300 }

\* The row of test_load_csv with each of these weights, and with an infinite
\* one.
WeighedRows ==
    { With(RowA, 7, WeightText(h)) : h \in Hundredths } \cup { With(RowA, 7, tInf) }

WeighedRecords == { Deserialize(row, Headers).rec : row \in WeighedRows }

\* preprocess is called on records that differ in weight alone.
BeginWeighed ==
    /\ ppc = "call"
    /\ \E n \in 0..MaxWeighed : records' \in [1..n -> WeighedRecords]
    /\ today' = [y |-> 2025, m |-> 6, d |-> 1]
    /\ cleaned' = <<>>
    /\ ppc' = "pass1"
    /\ UNCHANGED <<idx, feat, pos, min, max, divZero, origin, derived>>
    /\ UNCHANGED loadVars
    /\ UNCHANGED trainVars

NextWeigh == BeginWeighed \/ Pass1 \/ NormalizeFold \/ NormalizeMap \/ Return

SpecWeigh == Init /\ [][NextWeigh]_vars


\* --------------------------------------------------- preprocess, by date
\* Longest record sequence of the runs that vary the dates.
MaxAged == 2

Date(year, month, day) == [y |-> year, m |-> month, d |-> day]

\* The field text of a date: "1992-06-01".
DateText(date) ==
    Decimal(date.y) \o <<"-", DigitChar(date.m \div 10), DigitChar(date.m % 10),
                         "-", DigitChar(date.d \div 10), DigitChar(date.d % 10)>>

\* Birth dates the rows are written with: the first and the last day of a
\* year, a leap day, days early and in the middle of June, and a day that is
\* yet to come.
BirthDates ==
    { Date(1990, 1, 1), Date(1992, 6, 1), Date(2000, 12, 31), Date(2000, 2, 29),
      Date(1995, 6, 15), Date(2030, 6, 15) }

\* The second row of test_preprocess_filters_and_features, its weight filled
\* in, with each of these birth dates.
AgedRows == { With(RowB, 10, DateText(b)) : b \in BirthDates }

AgedRecords == { Deserialize(row, Headers).rec : row \in AgedRows }

\* Days the run may happen on: on, just before and just after those
\* birthdays, in the months around them, and at both ends of a year.
Days ==
    { Date(2025, 6, 1), Date(2025, 5, 31), Date(2025, 6, 14), Date(2025, 6, 15),
      Date(2025, 6, 16), Date(2025, 5, 20), Date(2025, 7, 1), Date(2025, 2, 28),
      Date(2025, 3, 1), Date(2024, 2, 29), Date(2025, 1, 1), Date(2025, 12, 31) }

\* preprocess is called, on one of these days, on records that differ in
\* birth date alone.
BeginAged ==
    /\ ppc = "call"
    /\ \E n \in 0..MaxAged : records' \in [1..n -> AgedRecords]
    /\ today' \in Days
    /\ cleaned' = <<>>
    /\ ppc' = "pass1"
    /\ UNCHANGED <<idx, feat, pos, min, max, divZero, origin, derived>>
    /\ UNCHANGED loadVars
    /\ UNCHANGED trainVars

NextAge == BeginAged \/ Pass1 \/ NormalizeFold \/ NormalizeMap \/ Return

SpecAge == Init /\ [][NextAge]_vars


\* -------------------------------------------------------------- train_model
\* Longest record slice train_model is run on.
MaxTrained == 2

\* let p = 19;
P == 19

Stances == {"Orthodox", "Southpaw", "Switch"}
WeightClasses ==
    { "Flyweight", "Bantamweight", "Featherweight", "Lightweight",
      "Welterweight", "Middleweight", "LightHeavyweight", "Heavyweight" }

\* `v as f64` of an f32: every f32, infinite and NaN included, is an f64 of
\* the same value, which the pair <<n, d>> already is.
F32AsF64(v) == v

\* `b as u8 as f64` of a bool
BoolAsF64(b) == IF b THEN One ELSE Zero

\* Row with the weight_height_ratio and reach_height_ratio columns exchanged.
MutRow(r) ==
    << F32AsF64(r.is_southpaw),
       F32AsF64(r.is_switch),
       BoolAsF64(r.weight_class = "Bantamweight"),
       BoolAsF64(r.weight_class = "Featherweight"),
       BoolAsF64(r.weight_class = "Lightweight"),
       BoolAsF64(r.weight_class = "Welterweight"),
       BoolAsF64(r.weight_class = "Middleweight"),
       BoolAsF64(r.weight_class = "LightHeavyweight"),
       BoolAsF64(r.weight_class = "Heavyweight"),
       F32AsF64(r.reach_height_ratio),
       F32AsF64(r.weight_height_ratio),
       F32AsF64(r.submission_per_takedown),
       F32AsF64(r.age),
       F32AsF64(r.significant_strikes_lpm),
       F32AsF64(r.strike_diff),
       F32AsF64(r.takedown_lpm),
       F32AsF64(r.submission_lpm),
       F32AsF64(r.takedown_accuracy),
       F32AsF64(r.takedown_defense) >>

\* The assignments x[[i, 0]] .. x[[i, 18]] of one turn of the loop: entry k of
\* the tuple is column k - 1.
Row(r) ==
    << F32AsF64(r.is_southpaw),
       F32AsF64(r.is_switch),
       BoolAsF64(r.weight_class = "Bantamweight"),
       BoolAsF64(r.weight_class = "Featherweight"),
       BoolAsF64(r.weight_class = "Lightweight"),
       BoolAsF64(r.weight_class = "Welterweight"),
       BoolAsF64(r.weight_class = "Middleweight"),
       BoolAsF64(r.weight_class = "LightHeavyweight"),
       BoolAsF64(r.weight_class = "Heavyweight"),
       F32AsF64(r.weight_height_ratio),
       F32AsF64(r.reach_height_ratio),
       F32AsF64(r.submission_per_takedown),
       F32AsF64(r.age),
       F32AsF64(r.significant_strikes_lpm),
       F32AsF64(r.strike_diff),
       F32AsF64(r.takedown_lpm),
       F32AsF64(r.submission_lpm),
       F32AsF64(r.takedown_accuracy),
       F32AsF64(r.takedown_defense) >>

\* let feature_names = [...]: entry k names coefficient k - 1.
feature_names ==
    << "is_southpaw", "is_switch",
       "wc_bantamweight", "wc_featherweight", "wc_lightweight",
       "wc_welterweight", "wc_middleweight", "wc_light_heavyweight",
       "wc_heavyweight",
       "weight_height_ratio", "reach_height_ratio", "submission_per_takedown",
       "age", "significant_strikes_lpm", "strike_diff",
       "takedown_lpm", "submission_lpm", "takedown_accuracy", "takedown_defense" >>

\* f64::abs
FAbs(v) == IF v[1] < 0 THEN FNeg(v) ELSE v

\* feature_names.iter().zip(coefs.iter()).map(...).collect()
Zip(names, cs) ==
    [k \in 1..(IF Len(names) < Len(cs) THEN Len(names) ELSE Len(cs)) |->
        <<names[k], cs[k]>>]

\* b.1.abs().partial_cmp(&a.1.abs()) is None: unwrap() panics.
Incomparable(pairs) == \E k \in 1..Len(pairs) : IsNan(pairs[k][2])

\* sort_by(|a, b| b.1.abs().partial_cmp(&a.1.abs()).unwrap()): a stable sort,
\* largest magnitude first; pairs of equal magnitude keep their order.
RECURSIVE SortByMagnitude(_)
SortByMagnitude(pairs) ==
    IF pairs = <<>> THEN <<>>
    ELSE LET front == SortByMagnitude(SubSeq(pairs, 1, Len(pairs) - 1))
             e == pairs[Len(pairs)]
             keep == Cardinality({ j \in 1..Len(front) :
                                     FLe(FAbs(e[2]), FAbs(front[j][2])) })
         IN  SubSeq(front, 1, keep) \o <<e>> \o SubSeq(front, keep + 1, Len(front))

\* A CleanRecord of the given stance and weight class with the numeric fields
\* v, in the order of Features.
CleanRecordOf(stance, weight_class, v) ==
    [ stance |-> stance,
      is_orthodox |-> OneHot(stance)[1],
      is_southpaw |-> OneHot(stance)[2],
      is_switch |-> OneHot(stance)[3],
      weight_height_ratio |-> v[1],
      reach_height_ratio |-> v[2],
      submission_per_takedown |-> v[3],
      weight_class |-> weight_class,
      age |-> v[4],
      significant_strikes_lpm |-> v[5],
      strike_diff |-> v[6],
      takedown_lpm |-> v[7],
      submission_lpm |-> v[8],
      takedown_accuracy |-> v[9],
      takedown_defense |-> v[10],
      win_rate |-> v[11] ]

\* Numeric fields that differ from one another: field k holds k/20.
Ramp == [k \in 1..Len(Features) |-> Norm(k, 20)]

\* Records train_model is run on: the two of test_train_model_simple, one of
\* every stance and weight class with fields that tell the columns apart, and
\* one holding the NaN and the infinity preprocess can return.
CleanRecords ==
    { CleanRecordOf("Orthodox", "Bantamweight",
                    [k \in 1..Len(Features) |-> IF k \in {1, 11} THEN One ELSE Zero]),
      CleanRecordOf("Orthodox", "Bantamweight", [k \in 1..Len(Features) |-> Zero]),
      CleanRecordOf("Southpaw", "Heavyweight",
                    [k \in 1..Len(Features) |->
                        IF k = 1 THEN NaN ELSE IF k = 2 THEN PosInf ELSE Zero]) }
    \cup { CleanRecordOf(s, w, Ramp) : s \in Stances, w \in WeightClasses }

\* Coefficients the fit may return; it is not part of this repository, so what
\* it returns for a dataset is left open.
Params ==
    { [k \in 1..P |-> FromInt(k)],                                \* last largest
      [k \in 1..P |-> FromInt(IF k % 2 = 0 THEN k - 20 ELSE 20 - k)],  \* first largest, signs alternating
      [k \in 1..P |-> Norm(1, 2)],                                \* all equal
      [k \in 1..P |-> IF k = 10 THEN NaN ELSE Zero] }             \* one not a number

\* train_model is called on a slice: n = records.len(), and x and y (X and Y) are
\* allocated full of zeros.
TrainCall ==
    /\ tpc = "call"
    /\ \E n \in 0..MaxTrained :
          /\ train_records' \in [1..n -> CleanRecords]
          /\ X' = [i \in 1..n |-> [k \in 1..P |-> Zero]]
          /\ Y' = [i \in 1..n |-> Zero]
    /\ tpc' = "rows"
    /\ UNCHANGED <<built, coefs, results, trained>>
    /\ UNCHANGED loadVars
    /\ UNCHANGED preVars

\* One turn of `for (i, r) in records.iter().enumerate()`.
TrainRow ==
    /\ tpc = "rows"
    /\ built < Len(train_records)
    /\ LET r == train_records[built + 1]
       IN  /\ X' = [X EXCEPT ![built + 1] = Row(r)]
           /\ Y' = [Y EXCEPT ![built + 1] = F32AsF64(r.win_rate)]
    /\ built' = built + 1
    /\ UNCHANGED <<train_records, tpc, coefs, results, trained>>
    /\ UNCHANGED loadVars
    /\ UNCHANGED preVars

\* LinearRegression::default().fit(&dataset)? and what follows it: an Err is
\* returned to the caller; on Ok the names are paired with the coefficients
\* and sorted, which panics on a coefficient that is NaN.
TrainFit ==
    /\ tpc = "rows"
    /\ built = Len(train_records)
    /\ \/ /\ trained' = "Err"
          /\ UNCHANGED <<coefs, results>>
       \/ \E params \in Params :
             /\ coefs' = params
             /\ IF Incomparable(Zip(feature_names, params))
                THEN /\ trained' = "panic"
                     /\ UNCHANGED results
                ELSE /\ trained' = "Ok"
                     /\ results' = SortByMagnitude(Zip(feature_names, params))
    /\ tpc' = "done"
    /\ UNCHANGED <<train_records, built, X, Y>>
    /\ UNCHANGED loadVars
    /\ UNCHANGED preVars

NextTrain == TrainCall \/ TrainRow \/ TrainFit

SpecTrain == Init /\ [][NextTrain]_vars


\* A record as the contract describes the ones preprocess keeps: weight and
\* height present and above 0, no NaN among the nine defaulted inputs, and a
\* stance that is one of the three labels, letter for letter.
Valid(r) ==
    /\ r.weight_in_kg # <<>>
    /\ FGt(r.weight_in_kg[1], Zero)
    /\ r.height_cm # <<>>
    /\ FGt(r.height_cm[1], Zero)
    /\ \A o \in { r.weight_in_kg, r.height_cm, r.reach_in_cm,
                  r.significant_strikes_landed_per_minute,
                  r.significant_strikes_absorbed_per_minute,
                  r.average_takedowns_landed_per_15_minutes,
                  r.average_submissions_attempted_per_15_minutes,
                  r.takedown_accuracy, r.takedown_defense } :
          o = <<>> \/ o[1] # NaN
    /\ r.stance \in { tOrthodox, tSouthpaw, tSwitch }

\* =================================================================== claims
\* Feature f has one and the same value on every record of recs.
Constant(recs, f) == \A a, b \in 1..Len(recs) : recs[a][f] = recs[b][f]

InUnit(x) == FLe(Zero, x) /\ FLe(x, One)

\* C1: when preprocess returns at least 2 records, every normalized feature
\* whose values before normalization were not all equal has all its returned
\* values in [0,1], with smallest value exactly 0 and largest exactly 1.
C1_UnitRange ==
    (ppc = "done" /\ Len(cleaned) >= 2) =>
        \A i \in 1..Len(Features) :
            LET f == Features[i]
            IN  ~Constant(derived, f) =>
                    /\ \A k \in 1..Len(cleaned) : InUnit(cleaned[k][f])
                    /\ \E k \in 1..Len(cleaned) : cleaned[k][f] = Zero
                    /\ \E k \in 1..Len(cleaned) : cleaned[k][f] = One

\* The inputs of the returned records are all finite.
FiniteInputs ==
    \A k \in 1..Len(origin) :
        \A i \in 1..Len(Defaulted(records[origin[k]])) :
            IsFinite(Defaulted(records[origin[k]])[i])

\* C1 on runs whose surviving inputs are finite (not the claim: the claim has
\* no such condition).
C1_UnitRangeOfFinite == FiniteInputs => C1_UnitRange

\* C2: a normalized feature with one value on every surviving record (so every
\* feature, when one record survives) is returned as exactly 0 on every
\* record; normalization never divides by zero; with no survivor the result
\* is empty.
C2_ConstantIsZero ==
    /\ "normalize" \notin divZero
    /\ ppc = "done" =>
        /\ \A i \in 1..Len(Features) :
              Constant(derived, Features[i]) =>
                  \A k \in 1..Len(cleaned) : cleaned[k][Features[i]] = Zero
        /\ Len(derived) = Len(cleaned)
        /\ (\A n \in 1..Len(records) : ~Valid(records[n])) => cleaned = <<>>

\* C2 witness: a single survivor whose ratio was not 0 is returned with 0, and
\* a pair of survivors agreeing on a non-zero feature is returned with 0 on it.
C2_Witness ==
    /\ ppc = "done"
    /\ \/ /\ Len(cleaned) = 1
          /\ derived[1].weight_height_ratio # Zero
          /\ cleaned[1].weight_height_ratio = Zero
       \/ /\ Len(cleaned) = 2
          /\ derived[1].reach_height_ratio = derived[2].reach_height_ratio
          /\ derived[1].reach_height_ratio # Zero
          /\ derived[1].age # derived[2].age
          /\ cleaned[1].reach_height_ratio = Zero
          /\ cleaned[2].reach_height_ratio = Zero


\* C6: preprocess returns one CleanRecord for each input record that is Valid
\* and none for any other, in input order.
C6_Survivors ==
    /\ { origin[k] : k \in 1..Len(origin) } = { n \in 1..idx : Valid(records[n]) }
    /\ \A a, b \in 1..Len(origin) : a < b => origin[a] < origin[b]
    /\ Len(cleaned) = Len(origin)
    /\ ppc = "done" => idx = Len(records)

\* C6 witness: of two inputs the first, its weight field empty, is dropped and
\* the second is returned.
C6_Witness ==
    /\ ppc = "done"
    /\ Len(records) = 2
    /\ records[1].weight_in_kg = <<>>
    /\ origin = <<2>>
    /\ Len(cleaned) = 1

\* C7: every record with a non-finite value among its nine defaulted inputs
\* is rejected, so no returned record was computed from a non-finite input
\* and no non-finite value takes part in normalization.
C7_NonFiniteRejected ==
    /\ FiniteInputs
    /\ \A k \in 1..Len(derived) :
          \A i \in 1..Len(Features) : IsFinite(derived[k][Features[i]])

\* The label text of a stance.
LabelOf(stance) ==
    CASE stance = "Orthodox" -> tOrthodox
      [] stance = "Southpaw" -> tSouthpaw
      [] stance = "Switch" -> tSwitch

\* C8: in every CleanRecord exactly one stance indicator is 1 and the other
\* two are 0, the one that is 1 is the record's stance, which is its input's
\* stance label, and normalization changes neither the stance, nor the weight
\* class, nor the indicators.
C8_OneHot ==
    \A k \in 1..Len(cleaned) :
        LET c == cleaned[k]
        IN  /\ <<c.is_orthodox, c.is_southpaw, c.is_switch>> \in
                  { <<One, Zero, Zero>>, <<Zero, One, Zero>>, <<Zero, Zero, One>> }
            /\ (c.is_orthodox = One) <=> (c.stance = "Orthodox")
            /\ (c.is_southpaw = One) <=> (c.stance = "Southpaw")
            /\ (c.is_switch = One) <=> (c.stance = "Switch")
            /\ LabelOf(c.stance) = records[origin[k]].stance
            /\ c.stance = derived[k].stance
            /\ c.weight_class = derived[k].weight_class
            /\ c.is_orthodox = derived[k].is_orthodox
            /\ c.is_southpaw = derived[k].is_southpaw
            /\ c.is_switch = derived[k].is_switch

\* C8 witness: an Orthodox and a Southpaw record returned after normalization
\* rescaled their ratios to 1 and 0.
C8_Witness ==
    /\ ppc = "done"
    /\ Len(cleaned) = 2
    /\ cleaned[1].is_orthodox = One
    /\ cleaned[2].is_southpaw = One
    /\ cleaned[1].weight_height_ratio = One
    /\ cleaned[2].weight_height_ratio = Zero

\* The per-minute rates of a record, as the first loop computes them.
TakedownLpm(r) == FDiv(UnwrapOrDefault(r.average_takedowns_landed_per_15_minutes), Fifteen)
SubmissionLpm(r) ==
    FDiv(UnwrapOrDefault(r.average_submissions_attempted_per_15_minutes), Fifteen)

\* C9 as claimed: submission_per_takedown before normalization is
\* submissions-per-minute / takedowns-per-minute whenever takedowns-per-minute
\* is not 0, and 0 when it is 0, with no division by zero.
C9_NonZeroDivides ==
    /\ "submission_per_takedown" \notin divZero
    /\ \A k \in 1..Len(derived) :
          LET r == records[origin[k]]
              spt == derived[k].submission_per_takedown
          IN  /\ TakedownLpm(r) # Zero => spt = FDiv(SubmissionLpm(r), TakedownLpm(r))
              /\ TakedownLpm(r) = Zero => spt = Zero

\* C9 amended: submission_per_takedown before normalization is
\* submissions-per-minute / takedowns-per-minute whenever takedowns-per-minute
\* is greater than 0, and 0 whenever it is 0 or negative, with no division by
\* zero.
C9_PositiveDivides ==
    /\ "submission_per_takedown" \notin divZero
    /\ \A k \in 1..Len(derived) :
          LET r == records[origin[k]]
              spt == derived[k].submission_per_takedown
          IN  /\ FGt(TakedownLpm(r), Zero) => spt = FDiv(SubmissionLpm(r), TakedownLpm(r))
              /\ ~FGt(TakedownLpm(r), Zero) => spt = Zero

\* C9 witness: one survivor with no takedowns but submissions, given 0, and
\* one with takedowns, given the quotient 15/30.
C9_Witness ==
    /\ ppc = "done"
    /\ \E a, b \in 1..Len(derived) :
          /\ TakedownLpm(records[origin[a]]) = Zero
          /\ SubmissionLpm(records[origin[a]]) = One
          /\ derived[a].submission_per_takedown = Zero
          /\ TakedownLpm(records[origin[b]]) = FromInt(2)
          /\ derived[b].submission_per_takedown = Norm(1, 2)

\* C10: a returned record whose input has wins + losses + draws = 0 has
\* win_rate exactly 0 before and after normalization; with a positive total
\* the value before normalization is wins / total; win_rate never divides by
\* zero.
C10_WinRate ==
    /\ "win_rate" \notin divZero
    /\ \A k \in 1..Len(cleaned) :
          LET r == records[origin[k]]
              total == r.wins + r.losses + r.draws
          IN  /\ total = 0 => derived[k].win_rate = Zero /\ cleaned[k].win_rate = Zero
              /\ total > 0 => derived[k].win_rate = Norm(r.wins, total)

\* C10 witness: a record without fights is returned with win_rate 0 next to
\* one whose 10/13 normalization rescaled to 1.
C10_Witness ==
    /\ ppc = "done"
    /\ \E a, b \in 1..Len(cleaned) :
          /\ records[origin[a]].wins + records[origin[a]].losses
                + records[origin[a]].draws = 0
          /\ cleaned[a].win_rate = Zero
          /\ derived[b].win_rate = Norm(10, 13)
          /\ cleaned[b].win_rate = One


\* The sample rows by what the contract says of them.  Accepted: not blank,
\* 18 fields, every field of its column's type (an empty optional number, the
\* literal "inf" and any stance text are).  Rejected: not blank, and of the
\* wrong arity or with a field that is not of its column's type.
AcceptedRows ==
    { RowA, RowB, With(RowB, 7, tEmpty), With(RowA, 8, tInf), With(RowA, 9, tLower) }
WrongArityRows == { SubSeq(RowA, 1, 17), Append(RowA, t1) }
BadFieldRows ==
    { With(RowA, 10, tDobBad), With(RowA, 10, tAbc), With(RowA, 3, tMinus1),
      With(RowB, 5, tEmpty), With(RowA, 7, tAbc), With(RowB, 6, tSpace) }

Some(x) == <<x>>

\* C3: when load_csv returns Ok, it returns exactly one record for each
\* accepted row and none for any other row, in row order, each record with
\* the values of its row.
C3_LoadedRecords ==
    result = "Ok" =>
        /\ { outRow[k] : k \in 1..Len(outRow) } =
              { n \in 1..Len(source.rows) : source.rows[n] \in AcceptedRows }
        /\ \A a, b \in 1..Len(outRow) : a < b => outRow[a] < outRow[b]
        /\ Len(out) = Len(outRow)
        /\ \A k \in 1..Len(out) :
              LET raw == source.rows[outRow[k]]
                  rec == out[k]
              IN  /\ rec.name = raw[1]
                  /\ rec.stance = raw[9]
                  /\ rec.nickname = <<>>
                  /\ raw[3] = t10 => rec.wins = 10 /\ rec.losses = 2 /\ rec.draws = 1
                  /\ raw[3] = t8 => rec.wins = 8 /\ rec.losses = 3 /\ rec.draws = 1
                  /\ rec.height_cm = Some(FromInt(180))
                  /\ raw[7] = t70 => rec.weight_in_kg = Some(FromInt(70))
                  /\ raw[7] = tEmpty => rec.weight_in_kg = <<>>
                  /\ raw[8] = t190 => rec.reach_in_cm = Some(FromInt(190))
                  /\ raw[8] = tInf => rec.reach_in_cm = Some(PosInf)
                  /\ raw[10] = tDob1990 => rec.date_of_birth = [y |-> 1990, m |-> 1, d |-> 1]
                  /\ raw[10] = tDob1992 => rec.date_of_birth = [y |-> 1992, m |-> 6, d |-> 1]
                  /\ raw[16] = t04 => rec.takedown_accuracy = Some(Norm(2, 5))
                  /\ raw[16] = t03 => rec.takedown_accuracy = Some(Norm(3, 10))

\* C3 witness: the row of test_load_csv, after a row with a bad date, is
\* returned alone with wins 10, stance Orthodox and birth date 1990-01-01.
C3_Witness ==
    /\ result = "Ok"
    /\ Len(source.rows) = 2
    /\ source.rows[1] \in BadFieldRows
    /\ source.rows[2] = RowA
    /\ Len(out) = 1
    /\ out[1].wins = 10
    /\ out[1].stance = tOrthodox
    /\ out[1].date_of_birth = [y |-> 1990, m |-> 1, d |-> 1]

\* The diagnostics written for the row on line n.
DiagsOf(n) == { i \in 1..Len(diags) : diags[i].line = n }

\* C4: every rejected row the loop has taken wrote exactly one diagnostic
\* (naming its line, and for a wrong arity the expected and found counts) and
\* did not end the load; every other row (blank, whatever its arity, or
\* accepted) wrote none.
C4_Diagnostics ==
    /\ \A i \in 1..Len(diags) : \E k \in 1..ln : diags[i].line = k + 1
    /\ \A k \in 1..ln :
          LET raw == source.rows[k]
          IN  IF source.fault # k /\ raw \in WrongArityRows \cup BadFieldRows
              THEN /\ Cardinality(DiagsOf(k + 1)) = 1
                   /\ ~(result = "Err" /\ ln = k)
                   /\ \A i \in DiagsOf(k + 1) :
                         IF raw \in WrongArityRows
                         THEN /\ diags[i].kind = "fields"
                              /\ diags[i].expected = 18
                              /\ diags[i].found = Len(raw)
                         ELSE diags[i].kind = "malformed"
              ELSE DiagsOf(k + 1) = {}

\* C4 witness: a row one field short, then a blank row of the wrong arity; the
\* load ends Ok with the one diagnostic of line 2.
C4_Witness ==
    /\ result = "Ok"
    /\ source.rows = << SubSeq(RowA, 1, 17), <<tSpace, tEmpty>> >>
    /\ Len(diags) = 1
    /\ diags[1].line = 2
    /\ diags[1].found = 17
    /\ out = <<>>

\* C5: load_csv returns an error only when the source cannot be opened or
\* read; no content of a data row makes it return an error.
C5_OnlyIoFails == result = "Err" => (source.fault = 0 \/ source.fault = ln)


\* The matrix as the contract lays it out, columns counted from 0: the classes
\* of columns 2-8 and the fields of columns 9-18.
ClassColumns ==
    << "Bantamweight", "Featherweight", "Lightweight", "Welterweight",
       "Middleweight", "LightHeavyweight", "Heavyweight" >>
NumericColumns ==
    << "weight_height_ratio", "reach_height_ratio", "submission_per_takedown",
       "age", "significant_strikes_lpm", "strike_diff", "takedown_lpm",
       "submission_lpm", "takedown_accuracy", "takedown_defense" >>

\* What column k holds for record r.
ColumnOf(r, k) ==
    IF k = 0 THEN r.is_southpaw
    ELSE IF k = 1 THEN r.is_switch
    ELSE IF k <= 8 THEN (IF r.weight_class = ClassColumns[k - 1] THEN One ELSE Zero)
    ELSE r[NumericColumns[k - 8]]

\* The name a weight class's indicator is reported under.
IndicatorName(class) ==
    CASE class = "Bantamweight" -> "wc_bantamweight"
      [] class = "Featherweight" -> "wc_featherweight"
      [] class = "Lightweight" -> "wc_lightweight"
      [] class = "Welterweight" -> "wc_welterweight"
      [] class = "Middleweight" -> "wc_middleweight"
      [] class = "LightHeavyweight" -> "wc_light_heavyweight"
      [] class = "Heavyweight" -> "wc_heavyweight"

\* The name of what column k holds.
NameOfColumn(k) ==
    IF k = 0 THEN "is_southpaw"
    ELSE IF k = 1 THEN "is_switch"
    ELSE IF k <= 8 THEN IndicatorName(ClassColumns[k - 1])
    ELSE NumericColumns[k - 8]

ClassOrder ==
    << "Flyweight", "Bantamweight", "Featherweight", "Lightweight",
       "Welterweight", "Middleweight", "LightHeavyweight", "Heavyweight" >>
Breakpoints == <<567, 612, 658, 703, 771, 839, 930>>

\* The place of a class in ClassOrder.
RankOf(class) == CHOOSE j \in 1..Len(ClassOrder) : ClassOrder[j] = class

\* The raw weight of the input of the k-th record kept.
RawWeight(k) == UnwrapOrDefault(records[origin[k]].weight_in_kg)

MonthDay(date) == date.m * 100 + date.d

\* The birth date of the input of the k-th record kept.
BirthOf(k) == records[origin[k]].date_of_birth

\* C13: the age pass 1 computes for a record it keeps is the current year less
\* the birth year, less 1 exactly when the current (month, day) comes before
\* the birth (month, day); on the birthday nothing is taken off.
C13_Age ==
    \A k \in 1..Len(derived) :
        LET b == BirthOf(k)
            years == today.y - b.y
        IN  /\ MonthDay(today) < MonthDay(b) => derived[k].age = FromInt(years - 1)
            /\ MonthDay(today) >= MonthDay(b) => derived[k].age = FromInt(years)
            /\ (today.m = b.m /\ today.d = b.d) => derived[k].age = FromInt(years)

\* C13 witness: on 2025-06-01 a record born 1992-06-01 is 33 on its birthday
\* and one born 1995-06-15, later in the same month, is 29.
C13_Witness ==
    /\ ppc = "done"
    /\ today = Date(2025, 6, 1)
    /\ Len(derived) = 2
    /\ BirthOf(1) = Date(1992, 6, 1)
    /\ derived[1].age = FromInt(33)
    /\ BirthOf(2) = Date(1995, 6, 15)
    /\ derived[2].age = FromInt(29)


\* The values, NaN aside, that feature f had on the records pass 1 kept.
ValuesOf(f) == { derived[k][f] : k \in 1..Len(derived) } \ {NaN}

\* The least and the greatest of a set of values; of no values, the fold's
\* starting pair.
Least(S) == IF S = {} THEN PosInf ELSE CHOOSE v \in S : \A u \in S : FLe(v, u)
Greatest(S) == IF S = {} THEN NegInf ELSE CHOOSE v \in S : \A u \in S : FLe(u, v)

\* C14: while pass 1 runs no value has been replaced; every replacement comes
\* after pass 1 took the last input record; while feature f is being replaced
\* min and max are the least and greatest of f over all kept records as pass 1
\* computed them; and every value replaced so far is the rescaling, with that
\* one pair, of its value before normalization, every other value being still
\* the one pass 1 computed.
C14_Barrier ==
    /\ ppc = "pass1" => cleaned = derived /\ feat = 0
    /\ cleaned # derived => idx = Len(records) /\ Len(cleaned) = Len(derived)
    /\ ppc \in {"map", "done"} =>
          /\ idx = Len(records)
          /\ Len(cleaned) = Len(derived)
          /\ \A i \in 1..Len(Features) :
                LET f == Features[i]
                    lo == Least(ValuesOf(f))
                    hi == Greatest(ValuesOf(f))
                IN  /\ (ppc = "map" /\ i = feat) => min = lo /\ max = hi
                    /\ \A k \in 1..Len(cleaned) :
                          cleaned[k][f] =
                              IF i < feat \/ (i = feat /\ k <= pos)
                              THEN Rescale(derived[k][f], lo, hi).v
                              ELSE derived[k][f]

\* C14 witness: midway through the first feature, the first of two records is
\* already replaced by 1 while the second still holds 70/180, and min and max
\* are the 70/180 and 90/180 of the data before normalization.
C14_Witness ==
    /\ ppc = "map"
    /\ feat = 1
    /\ pos = 1
    /\ idx = 2
    /\ Len(cleaned) = 2
    /\ derived[1].weight_height_ratio = Norm(90, 180)
    /\ derived[2].weight_height_ratio = Norm(70, 180)
    /\ cleaned[1].weight_height_ratio = One
    /\ cleaned[2].weight_height_ratio = Norm(70, 180)
    /\ min = Norm(70, 180)
    /\ max = Norm(90, 180)

====
